---------------------------- MODULE Spec2Model ----------------------------
(***************************************************************************)
(* Model of script.js: the image content filtering script.                 *)
(*                                                                         *)
(* Strings (paths, file names, OCR text, classifier replies) are sequences *)
(* of one-character strings, so that path.join, String.includes,           *)
(* path.extname, toLowerCase and String.replace are computed as Node       *)
(* computes them (POSIX flavour).                                          *)
(***************************************************************************)
EXTENDS Integers, Sequences, FiniteSets, TLC

VARIABLES
    folder,     \* process.argv[2], the root path argument (line 16)
    dirs,       \* file system: directory path -> sequence of entry names
    files,      \* file system: file path -> content
    orig,       \* the file contents when the process started (history)
    phase,      \* position of the main program
    paths,      \* the scan list of processImages (line 124)
    processed,  \* counter of line 130
    filtered,   \* counter of line 131
    st,         \* per scan-list index: position of that iteration's body
    text,       \* per index: the value of `text` (line 138)
    verdict,    \* per index: hasSensitiveContent (line 147)
    dims,       \* per index: metadata read by cropImage (line 88)
    hist,       \* per index: what was done for the file (history)
    exitCode,   \* the exit code of the process, -1 while it runs
    run         \* which invocation of the script on the tree this is

vars == <<folder, dirs, files, orig, phase, paths, processed, filtered,
          st, text, verdict, dims, hist, exitCode, run>>

----------------------------------------------------------------------------
(* Bounds of the model                                                     *)

\* most files (outside the tree's directories) a generated tree holds
MaxTreeFiles == 3
\* most files of a tree the pipeline is run on
MaxRunFiles == 2
\* image widths and heights cropImage is exercised on: 1..MaxDim
MaxDim == 100

\* most consecutive invocations of the script on one tree
MaxRuns == 2

----------------------------------------------------------------------------
(* Strings                                                                 *)

Upper == <<"A","B","C","D","E","F","G","H","I","J","K","L","M",
           "N","O","P","Q","R","S","T","U","V","W","X","Y","Z">>
Lower == <<"a","b","c","d","e","f","g","h","i","j","k","l","m",
           "n","o","p","q","r","s","t","u","v","w","x","y","z">>

\* String.prototype.toLowerCase
ToLowerCase(s) ==
    [i \in 1..Len(s) |->
        IF \E k \in 1..26 : Upper[k] = s[i]
        THEN Lower[CHOOSE k \in 1..26 : Upper[k] = s[i]]
        ELSE s[i]]

\* String.prototype.includes
Includes(s, sub) ==
    \E i \in 0..(Len(s) - Len(sub)) : SubSeq(s, i + 1, i + Len(sub)) = sub

\* text.replace(/\n/g, " ")
ReplaceNewlines(s) ==
    [i \in 1..Len(s) |-> IF s[i] = "\n" THEN " " ELSE s[i]]

\* the segments of s between "/" characters (String.split("/"))
RECURSIVE SplitAcc(_, _, _)
SplitAcc(s, cur, acc) ==
    IF s = <<>> THEN Append(acc, cur)
    ELSE IF Head(s) = "/" THEN SplitAcc(Tail(s), <<>>, Append(acc, cur))
    ELSE SplitAcc(Tail(s), Append(cur, Head(s)), acc)

SplitSlash(s) == SplitAcc(s, <<>>, <<>>)

\* segments joined with "/"
RECURSIVE JoinSlash(_)
JoinSlash(segs) ==
    IF segs = <<>> THEN <<>>
    ELSE IF Len(segs) = 1 THEN segs[1]
    ELSE segs[1] \o <<"/">> \o JoinSlash(Tail(segs))

DotDot == <<".", ".">>

\* path.posix normalizeString: drops "" and "." segments, resolves ".."
RECURSIVE NormSegs(_, _, _)
NormSegs(segs, out, allowAbove) ==
    IF segs = <<>> THEN out
    ELSE LET s == Head(segs) IN
         IF s = <<>> \/ s = <<".">> THEN NormSegs(Tail(segs), out, allowAbove)
         ELSE IF s = DotDot THEN
             IF out # <<>> /\ out[Len(out)] # DotDot
             THEN NormSegs(Tail(segs), SubSeq(out, 1, Len(out) - 1), allowAbove)
             ELSE IF allowAbove
                  THEN NormSegs(Tail(segs), Append(out, s), allowAbove)
                  ELSE NormSegs(Tail(segs), out, allowAbove)
         ELSE NormSegs(Tail(segs), Append(out, s), allowAbove)

\* path.normalize (POSIX)
Normalize(p) ==
    IF p = <<>> THEN <<".">>
    ELSE LET isAbs == p[1] = "/"
             trail == p[Len(p)] = "/"
             body  == JoinSlash(NormSegs(SplitSlash(p), <<>>, ~isAbs))
         IN IF body = <<>>
            THEN IF isAbs THEN <<"/">>
                 ELSE IF trail THEN <<".", "/">> ELSE <<".">>
            ELSE LET b2 == IF trail THEN body \o <<"/">> ELSE body
                 IN IF isAbs THEN <<"/">> \o b2 ELSE b2

\* path.join(a, b), for a non-empty b
PathJoin(a, b) ==
    IF a = <<>> THEN Normalize(b) ELSE Normalize(a \o <<"/">> \o b)

\* p without trailing "/" characters (the root "/" kept)
RECURSIVE StripTrail(_)
StripTrail(p) ==
    IF Len(p) > 1 /\ p[Len(p)] = "/" THEN StripTrail(SubSeq(p, 1, Len(p) - 1))
    ELSE p

\* path.basename
Basename(p) ==
    LET q == StripTrail(p)
        segs == SplitSlash(q)
    IN segs[Len(segs)]

\* path.dirname
Dirname(p) ==
    LET q == StripTrail(p)
        segs == SplitSlash(q)
        d == JoinSlash(SubSeq(segs, 1, Len(segs) - 1))
    IN IF Len(segs) = 1 THEN <<".">>
       ELSE IF d = <<>> THEN <<"/">> ELSE d

\* path.extname: from the last "." of the base name, "" when there is none
\* or when the base name starts with its only candidate "."
Extname(p) ==
    LET b == Basename(p)
        dotsAt == {i \in 1..Len(b) : b[i] = "."}
    IN IF dotsAt = {} THEN <<>>
       ELSE LET d == CHOOSE i \in dotsAt : \A j \in dotsAt : j <= i
            IN IF d = 1 \/ b = DotDot THEN <<>>
               ELSE SubSeq(b, d, Len(b))

\* how the operating system resolves a path argument
Resolve(p) == StripTrail(Normalize(p))

----------------------------------------------------------------------------
(* Program constants                                                       *)

\* 'dacy' (lines 31 and 125)
DacyName == <<"d","a","c","y">>
\* the extension allow-list of line 126
ImageExts == {<<".","j","p","g">>, <<".","j","p","e","g">>, <<".","p","n","g">>, <<".","g","i","f">>, <<".","b","m","p">>}
\* the suffix of the temporary sibling file (lines 99, 101, 106, 108)
TmpSuffix == <<".","t","m","p">>
\* the token looked for in the classifier's reply (line 75)
TrueToken == <<"t","r","u","e">>
\* the delay of the timer of line 79, in milliseconds
BackoffMs == 15000

----------------------------------------------------------------------------
(* The file system                                                         *)

\* an image file's content: the region (left, top, w, h) of the picture that
\* file number src held when the process started; partial marks a file whose
\* write was cut short
Content(src, left, top, w, h, partial) ==
    [src |-> src, left |-> left, top |-> top, w |-> w, h |-> h,
     partial |-> partial]

\* the printable characters in the order of their codes, from the space
\* (code 32) to the tilde (code 126); the double quote, the backslash
\* and the backquote are named, not written, and occur in no path of the
\* model
Ascii == <<
    " ", "!", "dquote", "#", "$", "%", "&", "'", "(", ")", "*", "+",
    ",", "-", ".", "/", "0", "1", "2", "3", "4", "5", "6", "7",
    "8", "9", ":", ";", "<", "=", ">", "?", "@", "A", "B", "C",
    "D", "E", "F", "G", "H", "I", "J", "K", "L", "M", "N", "O",
    "P", "Q", "R", "S", "T", "U", "V", "W", "X", "Y", "Z", "[",
    "backslash", "]", "^", "_", "backquote", "a", "b", "c", "d", "e", "f", "g",
    "h", "i", "j", "k", "l", "m", "n", "o", "p", "q", "r", "s",
    "t", "u", "v", "w", "x", "y", "z", "{", "|", "}", "~" >>

\* the code of a character; a newline has code 10
CharCode(c) ==
    IF c = "\n" THEN 10
    ELSE 31 + (CHOOSE k \in 1..Len(Ascii) : Ascii[k] = c)

\* strcmp(a, b) < 0: the order in which readdirSync lists the names of a
\* directory (line 38; the listing is sorted by name, not by creation)
RECURSIVE StrLess(_, _)
StrLess(a, b) ==
    IF b = <<>> THEN FALSE
    ELSE IF a = <<>> THEN TRUE
    ELSE IF Head(a) = Head(b) THEN StrLess(Tail(a), Tail(b))
    ELSE CharCode(Head(a)) < CharCode(Head(b))

\* a listing with the name put at its place in name order
InsertSorted(listing, name) ==
    LET k == Cardinality({j \in 1..Len(listing) : StrLess(listing[j], name)})
    IN SubSeq(listing, 1, k) \o <<name>> \o SubSeq(listing, k + 1, Len(listing))

\* entry name added to a directory listing (a name is listed once, and the
\* listing readdirSync returns is in name order)
AddEntry(d, dir, name) ==
    IF \E k \in 1..Len(d[dir]) : d[dir][k] = name THEN d
    ELSE [d EXCEPT ![dir] = InsertSorted(@, name)]

\* entry name removed from a directory listing
DelEntry(d, dir, name) ==
    [d EXCEPT ![dir] = SelectSeq(@, LAMBDA n : n # name)]

\* the file system after file p is written with content c
WriteFile(fs, p, c) ==
    [dirs  |-> AddEntry(fs.dirs, Dirname(p), Basename(p)),
     files |-> [q \in DOMAIN fs.files \cup {p} |->
                   IF q = p THEN c ELSE fs.files[q]]]

\* the file system after file p is removed
RemoveFile(fs, p) ==
    [dirs  |-> DelEntry(fs.dirs, Dirname(p), Basename(p)),
     files |-> [q \in DOMAIN fs.files \ {p} |-> fs.files[q]]]

\* the file system after directory p is made in an existing directory
MakeDir(fs, p) ==
    [dirs  |-> [q \in DOMAIN fs.dirs \cup {p} |->
                   IF q = p THEN <<>>
                   ELSE AddEntry(fs.dirs, Dirname(p), Basename(p))[q]],
     files |-> fs.files]

\* the files a generated tree is drawn from: the path below the root, as
\* names, and the picture's width and height
Cands == <<
    [rel |-> <<<<"a",".","p","n","g">>>>,                 w |-> 4, h |-> 2],
    [rel |-> <<<<"s","u","b">>, <<"a",".","p","n","g">>>>,        w |-> 2, h |-> 5],
    [rel |-> <<DacyName, <<"a",".","p","n","g">>>>,       w |-> 3, h |-> 3],
    [rel |-> <<<<"a",".","p","n","g",".","t","m","p">>>>,             w |-> 1, h |-> 1],
    [rel |-> <<<<"d","a","c","y","2">>, <<"e",".","p","n","g">>>>,      w |-> 3, h |-> 1],
    [rel |-> <<<<"d","a","c","y",".","p","n","g">>>>,              w |-> 2, h |-> 2],
    [rel |-> <<<<"b",".","J","P","G">>>>,                 w |-> 1, h |-> 2],
    [rel |-> <<<<"c",".","t","x","t">>>>,                 w |-> 1, h |-> 1],
    [rel |-> <<DacyName, <<"s","u","b">>, <<"q",".","p","n","g">>>>, w |-> 2, h |-> 1],
    [rel |-> <<<<"x","r">>, DacyName, <<"g",".","g","i","f">>>>, w |-> 5, h |-> 4],
    [rel |-> <<<<".","p","n","g">>>>,               w |-> 1, h |-> 1],
    [rel |-> <<<<"s","u","b">>, <<"h",".","j","p","e","g">>>>,       w |-> 6, h |-> 6],
    [rel |-> <<<<"k",".","b","m","p">>>>,                 w |-> 1, h |-> 1] >>

\* path.join applied along the names of rel
RECURSIVE JoinAll(_, _)
JoinAll(dir, rel) ==
    IF rel = <<>> THEN dir ELSE JoinAll(PathJoin(dir, Head(rel)), Tail(rel))

\* the file system after the directories of rel (all but its last name) and
\* the file itself are added below directory dir
RECURSIVE AddPath(_, _, _, _)
AddPath(fs, dir, rel, c) ==
    IF Len(rel) = 1 THEN WriteFile(fs, PathJoin(dir, rel[1]), c)
    ELSE LET sub == PathJoin(dir, rel[1])
             fs1 == IF sub \in DOMAIN fs.dirs THEN fs ELSE MakeDir(fs, sub)
         IN AddPath(fs1, sub, Tail(rel), c)

\* the tree under root argument f holding the candidates of S, added in the
\* order of Cands from candidate k on
RECURSIVE MkTree(_, _, _, _)
MkTree(fs, f, S, k) ==
    IF k > Len(Cands) THEN fs
    ELSE IF k \in S
         THEN MkTree(AddPath(fs, Resolve(f), Cands[k].rel,
                             Content(k, 0, 0, Cands[k].w, Cands[k].h, FALSE)),
                     f, S, k + 1)
         ELSE MkTree(fs, f, S, k + 1)

EmptyTree(f) ==
    [dirs |-> [q \in {Resolve(f)} |-> <<>>], files |-> <<>>]

Tree(f, S) == MkTree(EmptyTree(f), f, S, 1)

----------------------------------------------------------------------------
(* Scanning (lines 31-51 and 124-127)                                      *)

\* const dacyFolder = path.join(folder, 'dacy')
dacyFolder == PathJoin(folder, DacyName)

\* a wrong needle: folder + '/dacy', not normalised as path.join does
QuarantineNeedleConcat(f) == f \o <<"/">> \o DacyName

\* a wrong needle: the folder name in another letter case
QuarantineNeedleWrongCase(f) == PathJoin(f, <<"D", "a", "c", "y">>)

\* the string the filter of line 125 looks for in each path
QuarantineNeedle(f) == PathJoin(f, DacyName)

\* getAllFiles: depth first, a directory's entries in listing order
RECURSIVE GetAllFiles(_, _)
RECURSIVE WalkEntries(_, _, _)
GetAllFiles(dirPath, arrayOfFiles) ==
    WalkEntries(dirPath, dirs[Resolve(dirPath)], arrayOfFiles)

WalkEntries(dirPath, ents, arr) ==
    IF ents = <<>> THEN arr
    ELSE LET filePath == PathJoin(dirPath, Head(ents))
         IN WalkEntries(dirPath, Tail(ents),
                IF filePath \in DOMAIN dirs
                THEN GetAllFiles(filePath, arr)
                ELSE Append(arr, filePath))

\* a wrong filter: only the extension is tested, so the files of the
\* quarantine folder are listed too
IsSelectedByExtension(file) == ToLowerCase(Extname(file)) \in ImageExts

\* the test of the filter of lines 124-127
IsSelected(file) ==
    /\ ~Includes(file, QuarantineNeedle(folder))
    /\ ToLowerCase(Extname(file)) \in ImageExts

\* the scan list of processImages
ScanList == SelectSeq(GetAllFiles(folder, <<>>), IsSelected)

----------------------------------------------------------------------------
(* Collaborators' answers and the pure parts of the wrappers               *)

\* what tesseract.recognize may do: resolve with a text, or reject
OcrAnswers ==
    { [ok |-> TRUE,  out |-> <<>>],
      [ok |-> TRUE,  out |-> <<"h", "i">>],
      [ok |-> TRUE,  out |-> <<"a", "\n", "b">>],
      [ok |-> FALSE, out |-> <<>>] }

\* performOcr: the text with newlines replaced, "" when recognize rejects
PerformOcrResult(ans) ==
    IF ans.ok THEN ReplaceNewlines(ans.out) ELSE <<>>

\* a wrong test of the text: if (text === null), never true of a string
IsEmptyTextNullTest(t) == FALSE

\* if (!text): the empty string is the only falsy text
IsEmptyText(t) == t = <<>>

\* what openai.chat.completions.create may do: resolve with a reply, resolve
\* with a response that has no choices[0].message.content, or reject
ClassifierAnswers ==
    { [kind |-> "reply", content |-> <<"T","R","U","E">>],
      [kind |-> "reply", content |-> <<"F","A","L","S","E">>],
      [kind |-> "reply", content |-> <<"U","n","t","r","u","e">>],
      [kind |-> "malformed", content |-> <<>>],
      [kind |-> "rejected",  content |-> <<>>] }

\* whether the request of lines 67-75 ends in the catch block
RequestFails(ans) == ans.kind # "reply"

\* response.choices[0].message.content.toLowerCase().includes('true')
ReplyVerdict(content) == Includes(ToLowerCase(content), TrueToken)

\* a wrong catch block: the request is sent again after the wait
CheckContentRetries == "classify"

\* where checkContentWithOpenAI goes when its timer has fired: it returns
CheckContentAfterWait == "route"

\* the value checkContentWithOpenAI returns from its catch block
CheckContentCatchValue == FALSE

\* the delay the catch block waits for
CheckContentDelay == BackoffMs

----------------------------------------------------------------------------
(* The crop decision (lines 90-113)                                        *)

\* the greatest power of two that is at most n, for n >= 1
RECURSIVE Pow2Below(_, _)
Pow2Below(n, e) == IF 2 * e <= n THEN Pow2Below(n, 2 * e) ELSE e

\* a wrong rounding: Math.ceil(height * 0.7)
CeilSeventy(h) ==
    IF h % 10 # 0 THEN (7 * h) \div 10 + 1
    ELSE 7 * (h \div 10)

\* Math.floor(height * 0.7) in IEEE-754 double arithmetic.  The double 0.7 is
\* 0.7 - 0.4 * 2^-53, so the exact product is 7h/10 - 0.4h * 2^-53.  When h
\* is no multiple of 10 the floor is that of 7h/10.  When h = 10k the product
\* rounds to 7k exactly when 4k <= 2^e for the e with 2^e <= 7k < 2^(e+1)
\* (a tie rounds to the even 7k), and to the double below 7k otherwise.
FloorSeventy(h) ==
    IF h % 10 # 0 THEN (7 * h) \div 10
    ELSE LET k == h \div 10
         IN IF 4 * k <= Pow2Below(7 * k, 1) THEN 7 * k ELSE 7 * k - 1

\* a wrong first test: `height < width`, so that a square picture falls
\* through to the third branch and is unlinked
CropDecisionStrict(w, h) ==
    IF h < w THEN "top"
    ELSE IF h > w THEN "square"
    ELSE IF 2 * w > h THEN "delete"
    ELSE "none"

\* the branch cropImage takes for a picture of width w and height h
CropDecision(w, h) ==
    IF h <= w THEN "top"
    ELSE IF h > w THEN "square"
    ELSE IF 2 * w > h THEN "delete"
    ELSE "none"

\* a wrong area: the square is taken from the middle of a portrait picture
ExtractAreaCentered(w, h) ==
    IF CropDecision(w, h) = "top"
    THEN [left |-> 0, top |-> 0, width |-> w, height |-> FloorSeventy(h)]
    ELSE [left |-> 0, top |-> (h - w) \div 2, width |-> w, height |-> w]

\* the argument of extract() in the branch
ExtractArea(w, h) ==
    IF CropDecision(w, h) = "top"
    THEN [left |-> 0, top |-> 0, width |-> w, height |-> FloorSeventy(h)]
    ELSE [left |-> 0, top |-> 0, width |-> w, height |-> w]

\* sharp rejects an area that is empty or not inside the picture
\* ("bad extract area")
ExtractAccepted(c, a) ==
    /\ a.left >= 0 /\ a.top >= 0 /\ a.width >= 1 /\ a.height >= 1
    /\ a.left + a.width <= c.w /\ a.top + a.height <= c.h

\* the content toFile writes: area a of content c
Extracted(c, a) ==
    Content(c.src, c.left + a.left, c.top + a.top, a.width, a.height, FALSE)

----------------------------------------------------------------------------
(* The program                                                             *)

FS == [dirs |-> dirs, files |-> files]

NoHist == [ocr |-> 0, req |-> 0, failed |-> FALSE, waited |-> 0,
           counted |-> 0, copied |-> FALSE, cut |-> FALSE, torn |-> FALSE,
           unlinked |-> FALSE,
           crop |-> 0, ioerr |-> FALSE, ret |-> "none"]

NoDims == [w |-> 0, h |-> 0]

\* a wrong target: toFile writes over the picture itself
TmpPathInPlace(p) == p

\* the temporary sibling of lines 99 and 106: imagePath + '.tmp'
TmpPath(p) == p \o TmpSuffix

\* a wrong loop: paths.forEach(async ...) starts an iteration without
\* waiting for the ones before it
LoopReadyForEach(i) == TRUE

\* the for...of loop awaits every step of an iteration's body, so iteration
\* i starts when the iterations before it have ended
LoopReady(i) == \A j \in 1..(i - 1) : st[j] = "done"

\* a wrong catch block: the error is thrown again, out of the loop
MoveErrorRethrown == "thrown"

\* a wrong catch: the file is dropped after the move failed (`continue`)
MoveErrorSkipsCrop == "done"

\* the state an iteration is left in by the catch block of lines 158-160:
\* control falls through to the cropImage call of line 164
AfterMoveError == "crop_meta"

\* lines 17-20: without a folder argument the script exits with code 1
NoArgument ==
    /\ phase = "init"
    /\ folder = <<>>
    /\ phase' = "fatal"
    /\ exitCode' = 1
    /\ UNCHANGED <<folder, run, dirs, files, orig, paths, processed, filtered,
                   st, text, verdict, dims, hist>>

\* lines 31-34: the quarantine folder is made when nothing exists at its path
Mkdir ==
    /\ phase = "init"
    /\ folder # <<>>
    /\ LET fs == IF dacyFolder \in DOMAIN dirs \cup DOMAIN files THEN FS
                 ELSE MakeDir(FS, dacyFolder)
       IN dirs' = fs.dirs /\ files' = fs.files
    /\ phase' = "scan"
    /\ UNCHANGED <<folder, run, orig, paths, processed, filtered, st, text,
                   verdict, dims, hist, exitCode>>

\* line 33: mkdirSync throws (the root cannot be written): the exception is
\* uncaught and the process exits with code 1
MkdirFail ==
    /\ phase = "init"
    /\ folder # <<>>
    /\ dacyFolder \notin DOMAIN dirs \cup DOMAIN files
    /\ phase' = "fatal"
    /\ exitCode' = 1
    /\ UNCHANGED <<folder, run, dirs, files, orig, paths, processed, filtered,
                   st, text, verdict, dims, hist>>

\* lines 124-131: the scan list is built and the counters start at 0
Scan ==
    /\ phase = "scan"
    /\ paths' = ScanList
    /\ processed' = 0
    /\ filtered' = 0
    /\ st' = [i \in 1..Len(ScanList) |-> "pending"]
    /\ text' = [i \in 1..Len(ScanList) |-> <<>>]
    /\ verdict' = [i \in 1..Len(ScanList) |-> FALSE]
    /\ dims' = [i \in 1..Len(ScanList) |-> NoDims]
    /\ hist' = [i \in 1..Len(ScanList) |-> NoHist]
    /\ phase' = "loop"
    /\ UNCHANGED <<folder, run, dirs, files, orig, exitCode>>

\* a scan whose error is swallowed: the loop runs over what was found
ScanErrorSwallowed == "loop"

\* lines 37-51 and 175-178: getAllFiles has no try/catch, so a throw of
\* readdirSync or statSync rejects processImages and reaches the handler
ScanErrorPhase == "fatal"

\* readdirSync or statSync throws inside getAllFiles after k files were
\* pushed: processImages rejects before line 124 assigns the scan list,
\* and the handler of lines 175-178 exits with code 1
ScanFail ==
    /\ phase = "scan"
    /\ \E k \in 0..Len(GetAllFiles(folder, <<>>)) :
        LET found == SelectSeq(SubSeq(GetAllFiles(folder, <<>>), 1, k),
                               IsSelected)
        IN IF ScanErrorPhase = "fatal"
           THEN /\ phase' = "fatal"
                /\ exitCode' = 1
                /\ UNCHANGED <<paths, processed, filtered, st, text,
                               verdict, dims, hist>>
           ELSE /\ phase' = ScanErrorPhase
                /\ paths' = found
                /\ processed' = 0
                /\ filtered' = 0
                /\ st' = [i \in 1..Len(found) |-> "pending"]
                /\ text' = [i \in 1..Len(found) |-> <<>>]
                /\ verdict' = [i \in 1..Len(found) |-> FALSE]
                /\ dims' = [i \in 1..Len(found) |-> NoDims]
                /\ hist' = [i \in 1..Len(found) |-> NoHist]
                /\ UNCHANGED exitCode
    /\ UNCHANGED <<folder, run, dirs, files, orig>>

\* a counter that is advanced only when the file is done
CountOnCompletion(n) == n

\* line 135: ++processed, in the log line that opens the iteration
CountStarted(n) == n + 1

\* lines 133-135: the for...of loop takes the paths in list order; the body
\* opens with the log line that increments processed
Start(i) ==
    /\ phase = "loop"
    /\ \A j \in 1..(i - 1) : st[j] # "pending"
    /\ LoopReady(i)
    /\ st[i] = "pending"
    /\ processed' = CountStarted(processed)
    /\ st' = [st EXCEPT ![i] = "ocr"]
    /\ UNCHANGED <<folder, run, dirs, files, orig, phase, paths, filtered, text,
                   verdict, dims, hist, exitCode>>

\* lines 138-142: performOcr, and the skip of a file with empty text
Ocr(i) ==
    /\ st[i] = "ocr"
    /\ \E ans \in OcrAnswers :
        /\ text' = [text EXCEPT ![i] = PerformOcrResult(ans)]
        /\ st' = [st EXCEPT ![i] =
                    IF IsEmptyText(PerformOcrResult(ans)) THEN "done"
                    ELSE "classify"]
    /\ hist' = [hist EXCEPT ![i].ocr = @ + 1]
    /\ UNCHANGED <<folder, run, dirs, files, orig, phase, paths, processed,
                   filtered, verdict, dims, exitCode>>

\* lines 67-77: the request is sent; a reply gives the verdict, a failure
\* enters the catch block, which starts the timer of line 79
Request(i) ==
    /\ st[i] = "classify"
    /\ \E ans \in ClassifierAnswers :
        IF RequestFails(ans)
        THEN /\ st' = [st EXCEPT ![i] = "backoff"]
             /\ hist' = [hist EXCEPT ![i].req = @ + 1, ![i].failed = TRUE]
             /\ UNCHANGED verdict
        ELSE /\ st' = [st EXCEPT ![i] = "route"]
             /\ hist' = [hist EXCEPT ![i].req = @ + 1]
             /\ verdict' = [verdict EXCEPT ![i] = ReplyVerdict(ans.content)]
    /\ UNCHANGED <<folder, run, dirs, files, orig, phase, paths, processed,
                   filtered, text, dims, exitCode>>

\* lines 79-80: the timer fires and the catch block returns
Backoff(i) ==
    /\ st[i] = "backoff"
    /\ hist' = [hist EXCEPT ![i].waited = @ + CheckContentDelay]
    /\ verdict' = [verdict EXCEPT ![i] = CheckContentCatchValue]
    /\ st' = [st EXCEPT ![i] = CheckContentAfterWait]
    /\ UNCHANGED <<folder, run, dirs, files, orig, phase, paths, processed,
                   filtered, text, dims, exitCode>>

\* lines 149-151 and 164: a flagged file is counted and goes to the move,
\* any other file goes to cropImage
Route(i) ==
    /\ st[i] = "route"
    /\ IF verdict[i]
       THEN /\ filtered' = filtered + 1
            /\ hist' = [hist EXCEPT ![i].counted = @ + 1]
            /\ st' = [st EXCEPT ![i] = "copy"]
       ELSE /\ st' = [st EXCEPT ![i] = "crop_meta"]
            /\ UNCHANGED <<filtered, hist>>
    /\ UNCHANGED <<folder, run, dirs, files, orig, phase, paths, processed,
                   text, verdict, dims, exitCode>>

\* a destination that drops the extension of the base name
DestPathNoExt(p) ==
    LET b == Basename(p)
    IN PathJoin(dacyFolder, SubSeq(b, 1, Len(b) - Len(Extname(p))))

\* line 154: destPath = path.join(dacyFolder, path.basename(imagePath))
DestPath(p) == PathJoin(dacyFolder, Basename(p))

\* lines 154-155: copyFileSync into the quarantine folder, under the base
\* name; it throws when the source is gone or the target is a directory,
\* and may throw on any I/O error.  A copy that fails before the destination
\* is opened changes nothing ("fail"); one that fails after it was opened
\* (e.g. EFBIG or ENOSPC while writing) has truncated and partly written
\* the destination, also when the file was there before the copy, and then
\* removes it ("cut") or, when that unlink fails too, leaves the cut-short
\* copy there ("torn")
Copy(i) ==
    /\ st[i] = "copy"
    /\ LET destPath == DestPath(paths[i])
           can == /\ paths[i] \in DOMAIN files
                  /\ destPath \notin DOMAIN dirs
                  /\ dacyFolder \in DOMAIN dirs
       IN \E out \in {x \in {"ok", "cut", "torn", "fail"} :
                          x \in {"ok", "cut", "torn"} => can} :
           IF out = "ok"
           THEN LET fs == WriteFile(FS, destPath, files[paths[i]])
                IN /\ dirs' = fs.dirs /\ files' = fs.files
                   /\ hist' = [hist EXCEPT ![i].copied = TRUE]
                   /\ st' = [st EXCEPT ![i] = "unlink"]
           ELSE IF out = "cut"
           THEN LET fs == IF destPath \in DOMAIN files
                          THEN RemoveFile(FS, destPath) ELSE FS
                IN /\ dirs' = fs.dirs /\ files' = fs.files
                   /\ hist' = [hist EXCEPT ![i].cut = TRUE]
                   /\ st' = [st EXCEPT ![i] = AfterMoveError]
           ELSE IF out = "torn"
           THEN LET fs == WriteFile(FS, destPath,
                              [files[paths[i]] EXCEPT !.partial = TRUE])
                IN /\ dirs' = fs.dirs /\ files' = fs.files
                   /\ hist' = [hist EXCEPT ![i].torn = TRUE]
                   /\ st' = [st EXCEPT ![i] = AfterMoveError]
           ELSE /\ st' = [st EXCEPT ![i] = AfterMoveError]
                /\ UNCHANGED <<dirs, files, hist>>
    /\ UNCHANGED <<folder, run, orig, phase, paths, processed, filtered, text,
                   verdict, dims, exitCode>>

\* lines 156-157: unlinkSync of the source, then continue
Unlink(i) ==
    /\ st[i] = "unlink"
    /\ \E ok \in {b \in BOOLEAN : b => paths[i] \in DOMAIN files} :
           IF ok
           THEN LET fs == RemoveFile(FS, paths[i])
                IN /\ dirs' = fs.dirs /\ files' = fs.files
                   /\ hist' = [hist EXCEPT ![i].unlinked = TRUE]
                   /\ st' = [st EXCEPT ![i] = "done"]
           ELSE /\ st' = [st EXCEPT ![i] = AfterMoveError]
                /\ UNCHANGED <<dirs, files, hist>>
    /\ UNCHANGED <<folder, run, orig, phase, paths, processed, filtered, text,
                   verdict, dims, exitCode>>

\* lines 87-92: the metadata is read; a rejection is caught (return false),
\* and so is a picture without width or height
CropMeta(i) ==
    /\ st[i] = "crop_meta"
    /\ LET can == paths[i] \in DOMAIN files /\ ~files[paths[i]].partial
       IN \E m \in {x \in {"ok", "error", "nodims"} : x = "ok" => can} :
           IF m = "ok"
           THEN /\ dims' = [dims EXCEPT ![i] = [w |-> files[paths[i]].w,
                                                h |-> files[paths[i]].h]]
                /\ hist' = [hist EXCEPT ![i].crop = @ + 1]
                /\ st' = [st EXCEPT ![i] = "crop_write"]
           ELSE /\ hist' = [hist EXCEPT ![i].crop = @ + 1,
                                        ![i].ioerr = can,
                                        ![i].ret = "false"]
                /\ st' = [st EXCEPT ![i] = "done"]
                /\ UNCHANGED dims
    /\ UNCHANGED <<folder, run, dirs, files, orig, phase, paths, processed,
                   filtered, text, verdict, exitCode>>

\* lines 95-113: the branch is chosen; extract().toFile() writes the area to
\* the temporary sibling, or throws (caught, return false) with no file or a
\* partly written file there; the third branch unlinks the picture
CropWrite(i) ==
    /\ st[i] = "crop_write"
    /\ LET p == paths[i]
           d == CropDecision(dims[i].w, dims[i].h)
           a == ExtractArea(dims[i].w, dims[i].h)
           can == /\ p \in DOMAIN files
                  /\ ExtractAccepted(files[p], a)
                  /\ TmpPath(p) \notin DOMAIN dirs
       IN IF d = "delete"
          THEN LET fs == IF p \in DOMAIN files THEN RemoveFile(FS, p) ELSE FS
               IN /\ dirs' = fs.dirs /\ files' = fs.files
                  /\ hist' = [hist EXCEPT ![i].ret = "false"]
                  /\ st' = [st EXCEPT ![i] = "done"]
          ELSE IF d = "none"
          THEN /\ hist' = [hist EXCEPT ![i].ret = "true"]
               /\ st' = [st EXCEPT ![i] = "done"]
               /\ UNCHANGED <<dirs, files>>
          ELSE \E out \in {x \in {"ok", "partial", "nofile"} :
                              x \in {"ok", "partial"} => can} :
               IF out = "ok"
               THEN LET fs == WriteFile(FS, TmpPath(p), Extracted(files[p], a))
                    IN /\ dirs' = fs.dirs /\ files' = fs.files
                       /\ st' = [st EXCEPT ![i] = "crop_rename"]
                       /\ UNCHANGED hist
               ELSE LET fs == IF out = "partial"
                              THEN WriteFile(FS, TmpPath(p),
                                      [Extracted(files[p], a)
                                          EXCEPT !.partial = TRUE])
                              ELSE FS
                    IN /\ dirs' = fs.dirs /\ files' = fs.files
                       /\ hist' = [hist EXCEPT ![i].ioerr = can,
                                                ![i].ret = "false"]
                       /\ st' = [st EXCEPT ![i] = "done"]
    /\ UNCHANGED <<folder, run, orig, phase, paths, processed, filtered, text,
                   verdict, dims, exitCode>>

\* lines 101/108 and 115: renameSync puts the temporary file at the
\* picture's path (return true), or throws (caught, return false)
CropRename(i) ==
    /\ st[i] = "crop_rename"
    /\ LET p == paths[i]
           can == TmpPath(p) \in DOMAIN files /\ p \notin DOMAIN dirs
       IN \E ok \in {b \in BOOLEAN : b => can} :
           IF ok
           THEN LET fs == RemoveFile(WriteFile(FS, p, files[TmpPath(p)]),
                                     TmpPath(p))
                IN /\ dirs' = fs.dirs /\ files' = fs.files
                   /\ hist' = [hist EXCEPT ![i].ret = "true"]
           ELSE /\ hist' = [hist EXCEPT ![i].ioerr = can,
                                        ![i].ret = "false"]
                /\ UNCHANGED <<dirs, files>>
    /\ st' = [st EXCEPT ![i] = "done"]
    /\ UNCHANGED <<folder, run, orig, phase, paths, processed, filtered, text,
                   verdict, dims, exitCode>>

\* lines 169-172: the loop has ended, the summary is printed, and the
\* process ends with code 0
Finish ==
    /\ phase = "loop"
    /\ \A j \in 1..Len(paths) : st[j] # "pending"
    /\ LoopReady(Len(paths) + 1)
    /\ phase' = "done"
    /\ exitCode' = 0
    /\ UNCHANGED <<folder, run, dirs, files, orig, paths, processed, filtered,
                   st, text, verdict, dims, hist>>

----------------------------------------------------------------------------
(* Specifications                                                          *)

\* the root arguments the scan is checked on
RootArgs == { <<"r">>, <<".", "/", "r">>, <<"r", "/">>, <<"/", "r">>,
              <<".">>, <<"r", "/", ".", ".", "/", "r">> }

\* the candidates a run's tree is drawn from
RunCands == 1..7

Blank(f, fs) ==
    /\ folder = f
    /\ dirs = fs.dirs
    /\ files = fs.files
    /\ orig = fs.files
    /\ phase = "init"
    /\ paths = <<>>
    /\ processed = 0
    /\ filtered = 0
    /\ st = <<>>
    /\ text = <<>>
    /\ verdict = <<>>
    /\ dims = <<>>
    /\ hist = <<>>
    /\ exitCode = -1
    /\ run = 1

\* a run of the whole script on a small tree
Init ==
    \/ \E S \in SUBSET RunCands :
        /\ Cardinality(S) <= MaxRunFiles
        /\ Blank(<<"r">>, Tree(<<"r">>, S))
    \/ Blank(<<>>, EmptyTree(<<>>))

Idx == 1..Len(paths)

Next ==
    \/ NoArgument
    \/ Mkdir
    \/ MkdirFail
    \/ Scan
    \/ ScanFail
    \/ \E i \in Idx : Start(i)
    \/ \E i \in Idx : Ocr(i)
    \/ \E i \in Idx : Request(i)
    \/ \E i \in Idx : Backoff(i)
    \/ \E i \in Idx : Route(i)
    \/ \E i \in Idx : Copy(i)
    \/ \E i \in Idx : Unlink(i)
    \/ \E i \in Idx : CropMeta(i)
    \/ \E i \in Idx : CropWrite(i)
    \/ \E i \in Idx : CropRename(i)
    \/ Finish

Spec == Init /\ [][Next]_vars

\* the script is invoked again on the tree the previous run left: a new
\* process, whose state is that of lines 16-34 again
Rerun ==
    /\ phase = "done"
    /\ run < MaxRuns
    /\ run' = run + 1
    /\ orig' = files
    /\ phase' = "init"
    /\ paths' = <<>>
    /\ processed' = 0
    /\ filtered' = 0
    /\ st' = <<>>
    /\ text' = <<>>
    /\ verdict' = <<>>
    /\ dims' = <<>>
    /\ hist' = <<>>
    /\ exitCode' = -1
    /\ UNCHANGED <<folder, dirs, files>>

\* the candidates the tree of consecutive runs is drawn from: two images
\* of one base name and a quarantine entry of that name
TwiceCands == {1, 2, 3}

InitTwice ==
    \/ \E S \in SUBSET TwiceCands :
        /\ Cardinality(S) <= MaxRunFiles
        /\ Blank(<<"r">>, Tree(<<"r">>, S))
    \/ Blank(<<>>, EmptyTree(<<>>))

NextTwice == Next \/ Rerun

\* consecutive runs of the script on the same root
SpecTwice == InitTwice /\ [][NextTwice]_vars

\* the scan alone, on every tree of at most MaxTreeFiles candidates and
\* every root argument
InitScan ==
    \E f \in RootArgs, S \in SUBSET (1..Len(Cands)) :
        /\ Cardinality(S) <= MaxTreeFiles
        /\ Blank(f, Tree(f, S))

NextScan == Mkdir \/ MkdirFail \/ Scan \/ ScanFail

SpecScan == InitScan /\ [][NextScan]_vars

\* cropImage alone, on a picture of every width and height up to MaxDim
CropFile == <<"r", "/", "a", ".", "p", "n", "g">>

InitCrop ==
    \E w \in 1..MaxDim, h \in 1..MaxDim :
        LET fs == MakeDir(WriteFile(EmptyTree(<<"r">>), CropFile,
                                    Content(1, 0, 0, w, h, FALSE)),
                          PathJoin(<<"r">>, DacyName))
        IN /\ folder = <<"r">>
           /\ dirs = fs.dirs
           /\ files = fs.files
           /\ orig = fs.files
           /\ phase = "loop"
           /\ paths = <<CropFile>>
           /\ processed = 1
           /\ filtered = 0
           /\ st = <<"crop_meta">>
           /\ text = << <<"h", "i">> >>
           /\ verdict = <<FALSE>>
           /\ dims = <<NoDims>>
           /\ hist = <<[NoHist EXCEPT !.ocr = 1, !.req = 1]>>
           /\ exitCode = -1
           /\ run = 1

NextCrop ==
    \/ \E i \in Idx : CropMeta(i)
    \/ \E i \in Idx : CropWrite(i)
    \/ \E i \in Idx : CropRename(i)

SpecCrop == InitCrop /\ [][NextCrop]_vars

----------------------------------------------------------------------------
(* Vocabulary of the properties                                            *)

\* file path p lies in directory d, at any depth
RECURSIVE UnderDir(_, _)
UnderDir(p, d) ==
    LET up == Dirname(p)
    IN IF up = d THEN TRUE
       ELSE IF up = p \/ up = <<".">> \/ up = <<"/">> THEN FALSE
       ELSE UnderDir(up, d)

\* the quarantine folder root/dacy
QuarantineDir == PathJoin(Resolve(folder), DacyName)

\* the iteration of index i has gone past its OCR step
PastOcr(i) == st[i] \notin {"pending", "ocr"}

\* the iteration of index i has gone past checkContentWithOpenAI
PastClassify(i) == st[i] \notin {"pending", "ocr", "classify", "backoff"}

\* the picture at the path of index i when the process started
Original(i) == orig[paths[i]]

----------------------------------------------------------------------------
(* Properties                                                              *)

\* C1: no file has both a copy placed in the quarantine folder and a call of
\* cropImage on its source path.
C1_QuarantineExcludesCrop ==
    \A i \in Idx : ~(hist[i].copied /\ hist[i].crop > 0)

\* C2: at the end of a run the counter filtered is the number of files whose
\* copy into the quarantine folder and whose source delete both succeeded.
C2_FilteredCountsSuccesses ==
    phase = "done" =>
        filtered = Cardinality({i \in Idx : hist[i].copied /\ hist[i].unlinked})

\* C3: a file whose OCR text is empty is skipped: no classifier request, no
\* copy, no cropImage call, not counted, its content as at the start; the
\* run goes on (the next file can start, or the loop can end) and ends with
\* exit code 0.
C3_EmptyTextSkips ==
    \A i \in Idx :
        (PastOcr(i) /\ text[i] = <<>>) =>
            /\ st[i] = "done"
            /\ hist[i].ocr = 1
            /\ hist[i].req = 0
            /\ hist[i].counted = 0
            /\ ~hist[i].copied
            /\ hist[i].crop = 0
            /\ paths[i] \in DOMAIN files
            /\ files[paths[i]] = Original(i)
            /\ phase \in {"loop", "done"}
            /\ (phase = "loop" /\ i = processed => LoopReady(i + 1))
            /\ (phase = "done" => exitCode = 0)

C3_Witness ==
    /\ phase = "done"
    /\ Len(paths) = 2
    /\ text[1] = <<>> /\ hist[1].ocr = 1
    /\ hist[2].ret = "true"

\* C4: every call of checkContentWithOpenAI sends exactly one request; when
\* the request fails, the fixed delay is waited once, no second request is
\* sent, the verdict is false, and until the wait is over the verdict is not
\* delivered and no later file is started.
C4_FailOpenSingleWait ==
    \A i \in Idx :
        /\ hist[i].req <= 1
        /\ PastClassify(i) /\ text[i] # <<>> => hist[i].req = 1
        /\ ~hist[i].failed => hist[i].waited = 0
        /\ hist[i].failed =>
            \/ /\ st[i] = "backoff"
               /\ hist[i].waited = 0
               /\ \A j \in Idx : j > i => st[j] = "pending"
            \/ /\ PastClassify(i)
               /\ hist[i].waited = 15000
               /\ verdict[i] = FALSE
               /\ hist[i].counted = 0
               /\ ~hist[i].copied

C4_Witness ==
    /\ phase = "done"
    /\ Len(paths) = 2
    /\ hist[1].failed /\ hist[1].waited = 15000 /\ hist[1].crop = 1
    /\ hist[2].ocr = 1

\* C5: no path of the scan list lies under the quarantine folder root/dacy,
\* whatever the tree and the root argument.
C5_QuarantineExcluded ==
    phase = "loop" =>
        \A k \in 1..Len(paths) : ~UnderDir(paths[k], QuarantineDir)

C5_Witness ==
    /\ phase = "loop"
    /\ folder = <<".", "/", "r">>
    /\ Len(paths) >= 1
    /\ \E p \in DOMAIN files :
        UnderDir(p, QuarantineDir) /\ ToLowerCase(Extname(p)) \in ImageExts

\* C6: the scan list is exactly the files under the root with an image
\* extension (compared case-insensitively) that do not lie under root/dacy.
C6_ScanComplete ==
    phase = "loop" =>
        {paths[k] : k \in 1..Len(paths)} =
            {p \in DOMAIN files :
                /\ ToLowerCase(Extname(p)) \in ImageExts
                /\ ~UnderDir(p, QuarantineDir)}

\* the height Math.floor(h * 0.7) gives in double arithmetic, for h < 330:
\* the floor of 7h/10, and one less for h = 90, 170 and 180
FlooredHeight(h) ==
    (7 * h) \div 10 - (IF h \in {90, 170, 180} THEN 1 ELSE 0)

\* the iteration of index i has run cropImage to its end with no I/O error
\* of the collaborators (metadata, toFile, renameSync)
CroppedNoIoError(i) ==
    st[i] = "done" /\ hist[i].crop = 1 /\ ~hist[i].ioerr

\* C7 as stated: after cropImage on a picture with h <= w the file is the
\* top rows of the original, of width w and height floor(h * 0.7), for every
\* h, h = 1 included.
C7_AsStated ==
    \A i \in Idx :
        (CroppedNoIoError(i) /\ Original(i).h <= Original(i).w) =>
            /\ paths[i] \in DOMAIN files
            /\ files[paths[i]] =
                   Content(Original(i).src, 0, 0, Original(i).w,
                           FlooredHeight(Original(i).h), FALSE)

\* C7 as amended: after cropImage on a picture with 2 <= h <= w and no I/O
\* error the file is the top rows of the original, of width w and height
\* Math.floor(h * 0.7) as double arithmetic gives it, and cropImage returns
\* true; for h = 1 the empty area is rejected, cropImage returns false and
\* the file is the unchanged original.
C7_LandscapeCrop ==
    \A i \in Idx :
        (CroppedNoIoError(i) /\ Original(i).h <= Original(i).w) =>
            /\ paths[i] \in DOMAIN files
            /\ IF Original(i).h >= 2
               THEN /\ hist[i].ret = "true"
                    /\ files[paths[i]] =
                           Content(Original(i).src, 0, 0, Original(i).w,
                                   FlooredHeight(Original(i).h), FALSE)
               ELSE /\ hist[i].ret = "false"
                    /\ files[paths[i]] = Original(i)

C7_Witness ==
    /\ CroppedNoIoError(1)
    /\ Original(1).h = 90 /\ Original(1).w = 100
    /\ hist[1].ret = "true"
    /\ files[paths[1]].h = 62

\* C8: after cropImage on a picture with h > w and no I/O error the file is
\* the top-left square of the original, of side w, and cropImage returns
\* true; with an I/O error the file is the unchanged original.
C8_PortraitCrop ==
    \A i \in Idx :
        (st[i] = "done" /\ hist[i].crop = 1
            /\ Original(i).h > Original(i).w) =>
            /\ paths[i] \in DOMAIN files
            /\ IF hist[i].ioerr
               THEN hist[i].ret = "false" /\ files[paths[i]] = Original(i)
               ELSE /\ hist[i].ret = "true"
                    /\ files[paths[i]] =
                           Content(Original(i).src, 0, 0, Original(i).w,
                                   Original(i).w, FALSE)

C8_Witness ==
    /\ CroppedNoIoError(1)
    /\ Original(1).h = 7 /\ Original(1).w = 3
    /\ files[paths[1]].h = 3 /\ files[paths[1]].w = 3

\* the positions of an iteration's body at which a step is pending
Active == {"ocr", "classify", "backoff", "route", "copy", "unlink",
           "crop_meta", "crop_write", "crop_rename"}

\* some step of the run can be taken: a step of an iteration, the start of
\* the next iteration, or the end of the loop
CanStep ==
    \/ \E i \in Idx : st[i] \in Active
    \/ /\ processed < Len(paths)
       /\ st[processed + 1] = "pending"
       /\ LoopReady(processed + 1)
    \/ /\ processed = Len(paths)
       /\ LoopReady(Len(paths) + 1)

\* the steps an iteration at position s can still take, at most
StepsLeft(s) ==
    CASE s = "pending"     -> 10
      [] s = "ocr"         -> 9
      [] s = "classify"    -> 8
      [] s = "backoff"     -> 7
      [] s = "route"       -> 6
      [] s = "copy"        -> 5
      [] s = "unlink"      -> 4
      [] s = "crop_meta"   -> 3
      [] s = "crop_write"  -> 2
      [] s = "crop_rename" -> 1
      [] OTHER             -> 0

RECURSIVE SumSteps(_)
SumSteps(k) == IF k = 0 THEN 0 ELSE StepsLeft(st[k]) + SumSteps(k - 1)

\* the steps the run can still take, at most
Rank == (IF phase = "loop" THEN 1 ELSE 0) + SumSteps(Len(st))

\* what C9 asks of every state once the scan list exists
RunIsolated ==
    phase \in {"loop", "done"} =>
        /\ \A i \in Idx : st[i] \in Active \cup {"pending", "done"}
        /\ phase = "loop" => exitCode = -1 /\ CanStep
        /\ phase = "done" =>
            /\ exitCode = 0
            /\ processed = Len(paths)
            /\ \A i \in Idx : st[i] = "done" /\ hist[i].ocr = 1

\* C9: whatever step fails for whatever file, the run is not aborted: every
\* file of the scan list is started, the loop reaches the summary and the
\* process ends with exit code 0.  (While the loop runs a step can always be
\* taken and every step lowers Rank, so the loop ends; it ends in the
\* summary, with exit code 0 and every file started.)
C9_FailureIsolation ==
    /\ []RunIsolated
    /\ [][phase = "loop" => Rank' < Rank]_vars

C9_Witness ==
    /\ phase = "done"
    /\ Len(paths) = 2
    /\ hist[1].counted = 1 /\ ~hist[1].copied /\ hist[1].ioerr
    /\ hist[2].failed /\ hist[2].crop = 1

\* C10: files are started in scan order, at most one is in flight, and every
\* step of a file (its rename included) is over before the next one starts.
C10_Sequential ==
    /\ \A i, j \in Idx : (i < j /\ st[j] # "pending") => st[i] = "done"
    /\ Cardinality({i \in Idx : st[i] \notin {"pending", "done"}}) <= 1
    /\ phase \in {"loop", "done"} =>
           {i \in Idx : st[i] # "pending"} = 1..processed

C10_Witness ==
    /\ Len(paths) = 2
    /\ st[1] = "done" /\ hist[1].ret = "true"
    /\ st[2] = "crop_rename"

\* the file of index i was flagged and moved: copied and source deleted
Quarantined(i) == hist[i].copied /\ hist[i].unlinked

\* the quarantine entry named by the base name of the file of index i
EntryOf(i) == PathJoin(QuarantineDir, Basename(paths[i]))

\* the files of the run whose copy opened quarantine entry p: the copy was
\* completed, or it failed after the destination was opened
AttemptsAt(p) ==
    {j \in Idx : /\ hist[j].copied \/ hist[j].cut \/ hist[j].torn
                 /\ EntryOf(j) = p}

\* the last of them
LastAttemptAt(p) ==
    CHOOSE j \in AttemptsAt(p) : \A k \in AttemptsAt(p) : k <= j

\* what the copies of the run have made of entry p: the bytes the last file
\* copied onto it had at the start of the run; when that copy failed
\* part-way, no file, or a cut-short copy of those bytes
EntryAsLastAttemptLeft(p) ==
    IF hist[LastAttemptAt(p)].copied
    THEN p \in DOMAIN files /\ files[p] = Original(LastAttemptAt(p))
    ELSE IF hist[LastAttemptAt(p)].torn
    THEN /\ p \in DOMAIN files
         /\ files[p] = [Original(LastAttemptAt(p)) EXCEPT !.partial = TRUE]
    ELSE p \notin DOMAIN files

\* C11 as stated: at the end of a run every quarantined file is gone from
\* its path, was never cropped, and the quarantine entry of its base name
\* holds its bytes of the start of the run, whatever else the run processed.
C11_AsStated ==
    phase = "done" =>
        \A i \in Idx : Quarantined(i) =>
            /\ paths[i] \notin DOMAIN files
            /\ hist[i].crop = 0
            /\ EntryOf(i) \in DOMAIN files
            /\ files[EntryOf(i)] = Original(i)

\* C11: at the end of a run every quarantined file is gone from its path
\* and was never cropped; the quarantine entry of its base name is as the
\* last copy onto it left it (the start-of-run bytes of the file copied, or
\* no entry or a cut-short copy when that copy failed part-way), so it holds
\* the file's own start-of-run bytes when no later file of the same base
\* name was copied.
C11_QuarantinePostcondition ==
    phase = "done" =>
        \A i \in Idx : Quarantined(i) =>
            /\ paths[i] \notin DOMAIN files
            /\ hist[i].crop = 0
            /\ EntryAsLastAttemptLeft(EntryOf(i))
            /\ (\A j \in AttemptsAt(EntryOf(i)) : j <= i)
               => /\ EntryOf(i) \in DOMAIN files
                  /\ files[EntryOf(i)] = Original(i)

C11_Witness ==
    /\ phase = "done"
    /\ Len(paths) = 2
    /\ Quarantined(1) /\ Quarantined(2)
    /\ Basename(paths[1]) = Basename(paths[2])
    /\ files[EntryOf(1)] = Original(2)
    /\ Original(2) # Original(1)

\* the quarantine entries the run found when it started: in a second run,
\* the entries the first run left
EntriesAtStart == {p \in DOMAIN orig : UnderDir(p, QuarantineDir)}

\* C12 as stated: at the end of a second run on the same root, every entry
\* the first run left in the quarantine folder is still there with
\* identical bytes.
C12_AsStated ==
    (run > 1 /\ phase = "done") =>
        \A p \in EntriesAtStart : p \in DOMAIN files /\ files[p] = orig[p]

\* C12: at the end of a second run on the same root, every entry the first
\* run left in the quarantine folder is still there with identical bytes
\* unless the second run copied a flagged image of the same base name onto
\* it; then it is as the last such copy left it: it holds the bytes that
\* image had when the second run started, or is gone or a cut-short copy of
\* them when the copy failed part-way.
C12_SecondRunKeepsQuarantine ==
    (run > 1 /\ phase = "done") =>
        \A p \in EntriesAtStart :
            IF AttemptsAt(p) = {}
            THEN p \in DOMAIN files /\ files[p] = orig[p]
            ELSE EntryAsLastAttemptLeft(p)

C12_Witness ==
    /\ run = 2
    /\ phase = "done"
    /\ \E p \in EntriesAtStart :
          p \in DOMAIN files /\ files[p] = orig[p] /\ files[p].src = 1
    /\ \E i \in Idx :
          /\ hist[i].ret = "true"
          /\ Original(i).src = 2
          /\ Original(i).h = Original(i).w
          /\ files[paths[i]].h < Original(i).h

\* C13: for all positive widths and heights cropImage never takes its delete
\* branch: in a run of cropImage alone, with no quarantine step, the image
\* is at its path in every state, and cropImage returns false only after an
\* I/O error or a rejected extract area (height 1), never by deleting.
C13_DeleteUnreachable ==
    \A i \in Idx :
        /\ paths[i] \in DOMAIN files
        /\ hist[i].ret = "false" => hist[i].ioerr \/ dims[i].h = 1

\* a portrait picture with width / height > 0.5, the test of the third
\* branch, was cropped to a square and is still at its path
C13_Witness ==
    /\ st[1] = "done"
    /\ hist[1].ret = "true"
    /\ dims[1].h > dims[1].w
    /\ 2 * dims[1].w > dims[1].h
    /\ paths[1] \in DOMAIN files
    /\ files[paths[1]].h = dims[1].w

\* the picture cropImage is meant to leave at the path of index i
CroppedOriginal(i) ==
    Extracted(Original(i), ExtractArea(Original(i).w, Original(i).h))

\* C14: in every state of cropImage, failures at any step included, the
\* file at the picture's path is whole and is either the original or the
\* cropped picture, never a partly written one; when cropImage returns
\* false it is the original, and when it returns true the cropped picture.
C14_CropAtomic ==
    \A i \in Idx :
        /\ paths[i] \in DOMAIN files
        /\ ~files[paths[i]].partial
        /\ files[paths[i]] \in {Original(i), CroppedOriginal(i)}
        /\ hist[i].ret = "false" => files[paths[i]] = Original(i)
        /\ hist[i].ret = "true" => files[paths[i]] = CroppedOriginal(i)
        /\ hist[i].ret = "none" => files[paths[i]] = Original(i)

\* toFile failed half way: a partly written temporary file exists, cropImage
\* returned false and the picture is the original
C14_Witness ==
    /\ st[1] = "done"
    /\ hist[1].ret = "false"
    /\ (paths[1] \o TmpSuffix) \in DOMAIN files
    /\ files[paths[1] \o TmpSuffix].partial
    /\ files[paths[1]] = Original(1)

\* the files of the quarantine folder in the current state
QuarantineEntries == {p \in DOMAIN files : UnderDir(p, QuarantineDir)}

\* C15 as stated: no step of a run modifies, replaces or removes an entry
\* that exists in the quarantine folder, also when two flagged images have
\* the same base name.
C15_AsStated ==
    [][\A p \in QuarantineEntries :
          p \in DOMAIN files' /\ files'[p] = files[p]]_vars

\* C15: the only step of a run that changes or removes an entry of the
\* quarantine folder is the copy of a flagged image with the entry's base
\* name: a completed copy replaces the entry's bytes with that image's, a
\* copy that fails part-way removes the entry or leaves a cut-short copy of
\* the image in it.
C15_OnlySameNameCopyTouches ==
    [][\A p \in QuarantineEntries :
          (p \notin DOMAIN files' \/ files'[p] # files[p]) =>
              \E i \in Idx :
                  /\ st[i] = "copy"
                  /\ EntryOf(i) = p
                  /\ \/ /\ hist'[i].copied
                        /\ p \in DOMAIN files'
                        /\ files'[p] = files[paths[i]]
                     \/ /\ hist'[i].cut
                        /\ p \notin DOMAIN files'
                     \/ /\ hist'[i].torn
                        /\ p \in DOMAIN files'
                        /\ files'[p] = [files[paths[i]]
                                           EXCEPT !.partial = TRUE]]_vars

\* two flagged images of one base name were both copied, and the entry the
\* first copy made now holds the second image
C15_Witness ==
    /\ Len(paths) = 2
    /\ hist[1].copied /\ hist[2].copied
    /\ EntryOf(1) = EntryOf(2)
    /\ EntryOf(1) \in DOMAIN files
    /\ files[EntryOf(1)] = Original(2)
    /\ files[EntryOf(1)] # Original(1)
    /\ st[2] = "unlink"

\* the three routes a file can have taken when its iteration has ended
Skipped(i) == text[i] = <<>> /\ hist[i].req = 0 /\ hist[i].crop = 0
                 /\ ~hist[i].copied
Transformed(i) == hist[i].crop = 1 /\ ~Quarantined(i)
MoveThrew(i) == verdict[i] /\ hist[i].counted = 1 /\ ~Quarantined(i)

\* C16: no file is given to OCR, to the classifier or to cropImage more than
\* once; a file whose iteration has ended went through OCR once and took
\* exactly one of the routes skipped, quarantined (no cropImage call) and
\* transformed; cropImage was called exactly when the text is non-empty and
\* either the verdict was not flagged or the move into quarantine threw.
C16_OneRoutePerFile ==
    \A i \in Idx :
        /\ hist[i].ocr <= 1 /\ hist[i].req <= 1 /\ hist[i].crop <= 1
        /\ st[i] = "pending" =>
              hist[i].ocr = 0 /\ hist[i].req = 0 /\ hist[i].crop = 0
        /\ st[i] = "done" =>
            /\ hist[i].ocr = 1
            /\ text[i] # <<>> => hist[i].req = 1
            /\ Quarantined(i) => hist[i].crop = 0 /\ verdict[i]
            /\ Cardinality({r \in {"skipped", "quarantined", "transformed"} :
                              \/ r = "skipped" /\ Skipped(i)
                              \/ r = "quarantined" /\ Quarantined(i)
                              \/ r = "transformed" /\ Transformed(i)}) = 1
            /\ hist[i].crop = 1 <=>
                  (text[i] # <<>> /\ (~verdict[i] \/ MoveThrew(i)))

\* a run in which the move of the first file threw, so that it was cropped,
\* and the second file was quarantined
C16_Witness ==
    /\ phase = "done"
    /\ Len(paths) = 2
    /\ MoveThrew(1) /\ Transformed(1) /\ hist[1].ret = "true"
    /\ Quarantined(2)

\* C17: a failed scan is fatal and never partial: a run that ended through
\* the fatal handler has exit code 1, no scan list, no file started and
\* every file as at the start; and the loop only ever runs over the full
\* scan list, every image of the tree outside the quarantine folder.
C17_ScanFailureFatal ==
    /\ phase = "fatal" =>
          /\ exitCode = 1
          /\ paths = <<>>
          /\ processed = 0 /\ filtered = 0
          /\ files = orig
    /\ phase \in {"loop", "done"} =>
          \A p \in DOMAIN orig :
              IsSelected(p) => \E i \in Idx : paths[i] = p

\* the quarantine folder was made, the scan of a tree with an image in it
\* failed, and the process has exited with code 1
C17_Witness ==
    /\ phase = "fatal"
    /\ exitCode = 1
    /\ dacyFolder \in DOMAIN dirs
    /\ \E p \in DOMAIN files : IsSelected(p)

\* C18: at the end of a run every file that existed at the start, is not on
\* the scan list and is not in the quarantine folder is still there with
\* identical bytes, a temporary sibling <image path>.tmp that existed before
\* the run included; and no temporary sibling made by the run remains,
\* whether the crops succeeded or failed.
C18_FrameOutsideScanList ==
    phase = "done" =>
        /\ \A p \in DOMAIN orig :
              (/\ \A i \in Idx : paths[i] # p
               /\ ~UnderDir(p, QuarantineDir))
              => p \in DOMAIN files /\ files[p] = orig[p]
        /\ \A i \in Idx :
              (paths[i] \o TmpSuffix) \in DOMAIN files
                  => (paths[i] \o TmpSuffix) \in DOMAIN orig

\* the files whose iteration has started
Started == {i \in Idx : st[i] # "pending"}

\* C19: in every state of the loop and at the summary,
\* 0 <= filtered <= processed <= the number of files found, processed is
\* the number of files whose iteration has started, and at the summary
\* processed is the number of files found.
C19_CounterInvariant ==
    phase \in {"loop", "done"} =>
        /\ 0 <= filtered
        /\ filtered <= processed
        /\ processed <= Len(paths)
        /\ processed = Cardinality(Started)
        /\ phase = "done" => processed = Len(paths)

\* the summary of a run of two files, one of them counted as filtered
C19_Witness ==
    /\ phase = "done"
    /\ Len(paths) = 2
    /\ processed = 2
    /\ filtered = 1

=============================================================================
